---- MODULE Spec2Model ----
(***************************************************************************)
(* ohlcv-hub: the provider registry (registry.py), the Candle entity       *)
(* (models.py) and the four providers (providers/*.py) as a state machine. *)
(*                                                                         *)
(* A symbol is a sequence of one-character strings.  A candle is a record  *)
(* [time, high, low]; open, close and volume take no part in any           *)
(* validation or ordering decision of the code and are left out.           *)
(***************************************************************************)
EXTENDS Integers, Sequences, FiniteSets, TLC

(***************************************************************************)
(* Bounds of the model.                                                    *)
(***************************************************************************)
\* longest upstream batch (rows of one response)
MaxRows == 2
\* largest limit a caller passes; limits are 0..MaxLimit
MaxLimit == 2
\* longest symbol of the classification specification SpecPick
MaxSymLen == 6

\* Python's None
None == "None"

(***************************************************************************)
(* Characters and str methods.                                             *)
(***************************************************************************)
UpperLetters ==
    {"A","B","C","D","E","F","G","H","I","J","K","L","M",
     "N","O","P","Q","R","S","T","U","V","W","X","Y","Z"}

Digits == {"0","1","2","3","4","5","6","7","8","9"}

\* the characters str.strip() removes (ASCII whitespace)
Whitespace == {" ", "\t", "\n", "\r", "\f"}

LowerToUpper ==
    [ch \in {"a","b","c","d","e","f","g","h","i","j","k","l","m",
             "n","o","p","q","r","s","t","u","v","w","x","y","z"} |->
        CASE ch = "a" -> "A" [] ch = "b" -> "B" [] ch = "c" -> "C"
          [] ch = "d" -> "D" [] ch = "e" -> "E" [] ch = "f" -> "F"
          [] ch = "g" -> "G" [] ch = "h" -> "H" [] ch = "i" -> "I"
          [] ch = "j" -> "J" [] ch = "k" -> "K" [] ch = "l" -> "L"
          [] ch = "m" -> "M" [] ch = "n" -> "N" [] ch = "o" -> "O"
          [] ch = "p" -> "P" [] ch = "q" -> "Q" [] ch = "r" -> "R"
          [] ch = "s" -> "S" [] ch = "t" -> "T" [] ch = "u" -> "U"
          [] ch = "v" -> "V" [] ch = "w" -> "W" [] ch = "x" -> "X"
          [] ch = "y" -> "Y" [] ch = "z" -> "Z"]

\* str.upper() on ASCII text
upper(s) ==
    [i \in 1..Len(s) |-> IF s[i] \in DOMAIN LowerToUpper THEN LowerToUpper[s[i]] ELSE s[i]]

\* str.replace(ch, "")
remove(s, ch) == SelectSeq(s, LAMBDA x : x # ch)

\* str.strip(): drops leading and trailing whitespace, keeps inner whitespace
strip(s) ==
    LET keep == {i \in 1..Len(s) : s[i] \notin Whitespace}
    IN  IF keep = {} THEN <<>>
        ELSE LET lo == CHOOSE i \in keep : \A j \in keep : i <= j
                 hi == CHOOSE i \in keep : \A j \in keep : i >= j
             IN  SubSeq(s, lo, hi)

(***************************************************************************)
(* Regular expressions, as re.match applies them.                          *)
(***************************************************************************)
AllIn(s, class) == \A i \in 1..Len(s) : s[i] \in class

EndsWith(s, q) ==
    /\ Len(s) >= Len(q)
    /\ SubSeq(s, Len(s) - Len(q) + 1, Len(s)) = q

\* "$" matches at the end of the string and also just before a final newline
DollarEnds(s) ==
    {s} \cup (IF Len(s) >= 1 /\ s[Len(s)] = "\n" THEN {SubSeq(s, 1, Len(s) - 1)} ELSE {})

\* (USDT|USDC|BTC|ETH|BNB|BUSD|FDUSD)
QuoteCurrencies ==
    { <<"U","S","D","T">>, <<"U","S","D","C">>, <<"B","T","C">>, <<"E","T","H">>,
      <<"B","N","B">>, <<"B","U","S","D">>, <<"F","D","U","S","D">> }

\* ^[A-Z]{2,}(USDT|USDC|BTC|ETH|BNB|BUSD|FDUSD)$
_CRYPTO_RE(s) ==
    \E t \in DollarEnds(s) :
        /\ AllIn(t, UpperLetters)
        /\ \E q \in QuoteCurrencies : EndsWith(t, q) /\ Len(t) - Len(q) >= 2

\* ^(\^[A-Z]+|[A-Z]{1,5})$
_STOCK_RE(s) ==
    \E t \in DollarEnds(s) :
        \/ /\ Len(t) >= 2
           /\ t[1] = "^"
           /\ AllIn(SubSeq(t, 2, Len(t)), UpperLetters)
        \/ /\ Len(t) \in 1..5
           /\ AllIn(t, UpperLetters)

\* ^[A-Z0-9]{1,7}\.[A-Z]{1,3}$
_INTL_STOCK_RE(s) ==
    \E t \in DollarEnds(s) :
        \E k \in 1..7 :
            /\ Len(t) - (k + 1) \in 1..3
            /\ AllIn(SubSeq(t, 1, k), UpperLetters \cup Digits)
            /\ t[k + 1] = "."
            /\ AllIn(SubSeq(t, k + 2, Len(t)), UpperLetters)

\* ^[A-Z]{6}$
_FOREX_RE(s) ==
    \E t \in DollarEnds(s) : Len(t) = 6 /\ AllIn(t, UpperLetters)

\* tiingo.py's own _STOCK_RE: ^[A-Z]{1,5}$
tiingo_STOCK_RE(s) ==
    \E t \in DollarEnds(s) : Len(t) \in 1..5 /\ AllIn(t, UpperLetters)

(***************************************************************************)
(* Providers: supports().                                                  *)
(***************************************************************************)
Providers == {"binance", "yfinance", "tiingo", "finnhub"}

\* binance._normalise
_normalise(symbol) == strip(remove(remove(upper(symbol), "/"), "-"))

BinanceSupports(symbol) == _CRYPTO_RE(_normalise(symbol))

\* faulty variant of YFinanceSupports: the symbol is normalised as binance
\* normalises it before the patterns are tried
YFinanceSupportsNormalised(symbol) ==
    LET up == _normalise(symbol)
    IN  _CRYPTO_RE(up) \/ _FOREX_RE(up) \/ _STOCK_RE(up) \/ _INTL_STOCK_RE(up)

YFinanceSupports(symbol) ==
    LET up == upper(symbol)
    IN  _CRYPTO_RE(up) \/ _FOREX_RE(up) \/ _STOCK_RE(up) \/ _INTL_STOCK_RE(up)

TiingoSupports(symbol) ==
    LET up == upper(symbol)
    IN  tiingo_STOCK_RE(up) \/ _INTL_STOCK_RE(up)

FinnhubSupports(symbol) ==
    LET up == upper(symbol)
    IN  _STOCK_RE(up) \/ _INTL_STOCK_RE(up) \/ _FOREX_RE(up)

\* provider.supports(symbol), dispatched on the provider
supports(p, symbol) ==
    CASE p = "binance"  -> BinanceSupports(symbol)
      [] p = "yfinance" -> YFinanceSupports(symbol)
      [] p = "tiingo"   -> TiingoSupports(symbol)
      [] p = "finnhub"  -> FinnhubSupports(symbol)

(***************************************************************************)
(* models.py: Candle.                                                      *)
(***************************************************************************)
\* Candle.__post_init__ raises ValueError
CandleRaises(time, high, low) == high < low \/ time <= 0

Candle(time, high, low) == [time |-> time, high |-> high, low |-> low]

(***************************************************************************)
(* Python sequence helpers.                                                *)
(***************************************************************************)
Min(a, b) == IF a < b THEN a ELSE b
Max(a, b) == IF a > b THEN a ELSE b

\* seq[start:] for any integer start
SliceFrom(seq, start) ==
    LET from == IF start < 0 THEN Max(Len(seq) + start, 0) ELSE Min(start, Len(seq))
    IN  SubSeq(seq, from + 1, Len(seq))

\* seq[-limit:]  (with limit = 0 this is seq[0:], the whole sequence)
LastSlice(seq, limit) == SliceFrom(seq, 0 - limit)

\* pandas DataFrame.tail(n): no rows for n = 0, else the rows of [-n:]
tail(seq, n) == IF n = 0 THEN <<>> ELSE SliceFrom(seq, 0 - n)

(***************************************************************************)
(* The intervals each provider honours.                                    *)
(***************************************************************************)
\* binance._VALID_INTERVALS
_VALID_INTERVALS ==
    {"1m","3m","5m","15m","30m","1h","2h","4h","6h","8h","12h","1d","3d","1w","1M"}

\* keys of yfinance._INTERVAL_MAP
_INTERVAL_MAP == {"1m","5m","15m","1h","1d","1w"}

\* keys of tiingo._RESAMPLE
_RESAMPLE == {"1d","1w"}

\* keys of finnhub._RESOLUTION_MAP
_RESOLUTION_MAP == {"1m","5m","15m","30m","1h","1d","1w"}

(***************************************************************************)
(* Upstream responses.  A response is what the network call of a provider  *)
(* yields: the transport fails, the service answers with an error status,  *)
(* the body does not parse, or a batch of rows arrives.  A row is          *)
(* [t, h, l]: the upstream's time stamp (milliseconds for binance, seconds *)
(* for the others), high and low.                                          *)
(***************************************************************************)
\* milliseconds per second: binance's  int(row[0]) // 1000
MsPerSecond == 1000

\* candle times in seconds an upstream may deliver: one invalid, two valid
TimeStamps == {0, 1, 2}
Highs == {1, 2}
Lows == {2}

RawTimes(p) == IF p = "binance" THEN {t * MsPerSecond : t \in TimeStamps} ELSE TimeStamps

Rows(p) == [t : RawTimes(p), h : Highs, l : Lows]

RowSeqs(p, n) == UNION {[1..k -> Rows(p)] : k \in 0..n}

\* the transport failed, the status is not 200, the body does not parse
FailureStatuses == {"neterr", "http", "badjson"}

Responses(p, n) ==
    {[status |-> s, rows |-> <<>>] : s \in FailureStatuses}
        \cup {[status |-> "ok", rows |-> r] : r \in RowSeqs(p, n)}

(***************************************************************************)
(* Outcomes of a provider's fetch().                                       *)
(***************************************************************************)
\* a value of type list[Candle] | None
NoneValue == [isNone |-> TRUE, items |-> <<>>]
List(items) == [isNone |-> FALSE, items |-> items]

\* Python truthiness of a list[Candle] | None:  "if result:"
Truthy(v) == ~v.isNone /\ v.items # <<>>

Return(v) == [kind |-> "return", value |-> v, error |-> None]
Raise(e) == [kind |-> "raise", value |-> NoneValue, error |-> e]
\* the coroutine is suspended on its network call
Await == [kind |-> "await", value |-> NoneValue, error |-> None]

\* candles or None
OrNone(candles) == IF candles = <<>> THEN NoneValue ELSE List(candles)

\* the rows of a batch whose Candle(...) does not raise, in batch order
\* (try: candles.append(Candle(...))  except ValueError: continue)
ValidCandles(rows) ==
    LET ok == SelectSeq(rows, LAMBDA r : ~CandleRaises(r.t, r.h, r.l))
    IN  [i \in 1..Len(ok) |-> Candle(ok[i].t, ok[i].h, ok[i].l)]

\* "if not api_key": os.getenv gave None or the empty string
Unset(api_key) == api_key = None \/ api_key = ""

(***************************************************************************)
(* BinanceProvider.fetch                                                   *)
(***************************************************************************)
BinancePreAwait(interval, env) ==
    IF interval \notin _VALID_INTERVALS THEN Return(NoneValue) ELSE Await

\* no try/except: what aiohttp, resp.json or Candle raise leaves fetch
BinancePostAwait(resp, limit) ==
    IF resp.status = "neterr" THEN Raise("ClientError")
    ELSE IF resp.status = "http" THEN Return(NoneValue)
    ELSE IF resp.status = "badjson" THEN Raise("JSONDecodeError")
    ELSE IF resp.rows = <<>> THEN Return(NoneValue)
    ELSE IF \E i \in 1..Len(resp.rows) :
                CandleRaises(resp.rows[i].t \div MsPerSecond, resp.rows[i].h, resp.rows[i].l)
         THEN Raise("ValueError")
    ELSE Return(List([i \in 1..Len(resp.rows) |->
                    Candle(resp.rows[i].t \div MsPerSecond, resp.rows[i].h, resp.rows[i].l)]))

(***************************************************************************)
(* YFinanceProvider.fetch                                                  *)
(***************************************************************************)
YFinancePreAwait(interval, env) ==
    IF interval \notin _INTERVAL_MAP THEN Return(NoneValue) ELSE Await

\* _download turns every exception and an empty frame into None
YFinancePostAwait(resp, limit) ==
    IF resp.status # "ok" \/ resp.rows = <<>> THEN Return(NoneValue)
    ELSE Return(OrNone(ValidCandles(tail(resp.rows, limit))))

(***************************************************************************)
(* TiingoProvider.fetch                                                    *)
(***************************************************************************)
\* faulty variant of TiingoPreAwait: a missing key is reported as absence
TiingoPreAwaitKeyIsAbsence(interval, env) ==
    IF interval \notin _RESAMPLE THEN Return(NoneValue)
    ELSE IF Unset(env.TIINGO_API_KEY) THEN Return(NoneValue)
    ELSE Await

\* faulty variant of TiingoPreAwait: the key is checked before the interval
TiingoPreAwaitKeyFirst(interval, env) ==
    IF Unset(env.TIINGO_API_KEY) THEN Raise("RuntimeError: TIINGO_API_KEY")
    ELSE IF interval \notin _RESAMPLE THEN Return(NoneValue)
    ELSE Await

TiingoPreAwait(interval, env) ==
    IF interval \notin _RESAMPLE THEN Return(NoneValue)
    ELSE IF Unset(env.TIINGO_API_KEY) THEN Raise("RuntimeError: TIINGO_API_KEY")
    ELSE Await

\* _download turns every exception and a non-200 status into None
TiingoPostAwait(resp, limit) ==
    IF resp.status # "ok" \/ resp.rows = <<>> THEN Return(NoneValue)
    ELSE Return(OrNone(ValidCandles(LastSlice(resp.rows, limit))))

(***************************************************************************)
(* FinnhubProvider.fetch and _parse                                        *)
(***************************************************************************)
FinnhubPreAwait(interval, env) ==
    IF interval \notin _RESOLUTION_MAP THEN Return(NoneValue)
    ELSE IF Unset(env.FINNHUB_API_KEY) THEN Raise("RuntimeError: FINNHUB_API_KEY")
    ELSE Await

\* FinnhubProvider._parse: filter first, truncate after
_parse(rows, limit) == OrNone(LastSlice(ValidCandles(rows), limit))

\* _fetch_stock / _fetch_forex turn every exception and s != "ok" into None
FinnhubPostAwait(resp, limit) ==
    IF resp.status # "ok" THEN Return(NoneValue)
    ELSE Return(_parse(resp.rows, limit))

(***************************************************************************)
(* provider.fetch(symbol, interval, limit), dispatched on the provider:    *)
(* the part before its network call and the part after it.                 *)
(***************************************************************************)
PreAwait(p, interval, env) ==
    CASE p = "binance"  -> BinancePreAwait(interval, env)
      [] p = "yfinance" -> YFinancePreAwait(interval, env)
      [] p = "tiingo"   -> TiingoPreAwait(interval, env)
      [] p = "finnhub"  -> FinnhubPreAwait(interval, env)

PostAwait(p, resp, limit) ==
    CASE p = "binance"  -> BinancePostAwait(resp, limit)
      [] p = "yfinance" -> YFinancePostAwait(resp, limit)
      [] p = "tiingo"   -> TiingoPostAwait(resp, limit)
      [] p = "finnhub"  -> FinnhubPostAwait(resp, limit)

(***************************************************************************)
(* registry.py: the lazy provider singletons.  reg is the module's         *)
(* globals: reg.instances[p] is the id of the instance held in _<p>, 0     *)
(* while the global is None; reg.constructed[p] counts the constructor     *)
(* calls of p's class made so far.                                         *)
(***************************************************************************)
\* <Provider>(): no provider defines __init__, none reads the environment
Construct(p, reg) ==
    [instances   |-> [reg.instances EXCEPT ![p] = reg.constructed[p] + 1],
     constructed |-> [reg.constructed EXCEPT ![p] = @ + 1]]

_get_binance(reg) ==
    IF reg.instances["binance"] = 0 THEN Construct("binance", reg) ELSE reg

\* faulty variant of _get_yfinance: no "is None" test, a new instance per lookup
_get_yfinance_always(reg) == Construct("yfinance", reg)

_get_yfinance(reg) ==
    IF reg.instances["yfinance"] = 0 THEN Construct("yfinance", reg) ELSE reg

_get_tiingo(reg) ==
    IF reg.instances["tiingo"] = 0 THEN Construct("tiingo", reg) ELSE reg

_get_finnhub(reg) ==
    IF reg.instances["finnhub"] = 0 THEN Construct("finnhub", reg) ELSE reg

_get(p, reg) ==
    CASE p = "binance"  -> _get_binance(reg)
      [] p = "yfinance" -> _get_yfinance(reg)
      [] p = "tiingo"   -> _get_tiingo(reg)
      [] p = "finnhub"  -> _get_finnhub(reg)

\* the list display [_get_x(), _get_y(), ...], evaluated left to right:
\* the chain of instances and the globals afterwards
RECURSIVE GetAll(_, _)
GetAll(names, reg) ==
    IF names = <<>> THEN [chain |-> <<>>, reg |-> reg]
    ELSE LET p    == Head(names)
             r1   == _get(p, reg)
             rest == GetAll(Tail(names), r1)
         IN  [chain |-> <<[name |-> p, id |-> r1.instances[p]]>> \o rest.chain,
              reg   |-> rest.reg]

\* faulty variant of pick: the stock test runs before the crypto test
pickStockFirst(symbol, reg) ==
    LET up == upper(symbol)
    IN  IF _STOCK_RE(up) THEN GetAll(<<"yfinance", "tiingo", "finnhub">>, reg)
        ELSE IF _CRYPTO_RE(up) THEN GetAll(<<"binance", "yfinance">>, reg)
        ELSE IF _INTL_STOCK_RE(up) THEN GetAll(<<"yfinance", "finnhub">>, reg)
        ELSE IF _FOREX_RE(up) THEN GetAll(<<"yfinance", "finnhub">>, reg)
        ELSE GetAll(<<"binance", "yfinance", "tiingo", "finnhub">>, reg)

\* registry.pick
pick(symbol, reg) ==
    LET up == upper(symbol)
    IN  IF _CRYPTO_RE(up) THEN GetAll(<<"binance", "yfinance">>, reg)
        ELSE IF _STOCK_RE(up) THEN GetAll(<<"yfinance", "tiingo", "finnhub">>, reg)
        ELSE IF _INTL_STOCK_RE(up) THEN GetAll(<<"yfinance", "finnhub">>, reg)
        ELSE IF _FOREX_RE(up) THEN GetAll(<<"yfinance", "finnhub">>, reg)
        ELSE GetAll(<<"binance", "yfinance", "tiingo", "finnhub">>, reg)

(***************************************************************************)
(* State.                                                                  *)
(*   env          the process environment: the two API keys                *)
(*   instances    the globals _binance, _yfinance, _tiingo, _finnhub       *)
(*   constructed  history: constructor calls per provider class            *)
(*   calls        the fetch coroutines on the event loop, by call id       *)
(* A call records where its coroutine stands (pc), its arguments, the      *)
(* chain pick returned, the loop position idx (1-based), what it returned  *)
(* or raised, and as history the providers whose supports() and fetch()    *)
(* it invoked, the outcome of each fetch(), and the upstream response the  *)
(* provider in flight last received.                                       *)
(***************************************************************************)
VARIABLES env, instances, constructed, calls

vars == <<env, instances, constructed, calls>>

\* os.getenv(...) yields None, or the string set
KeyValues == {None, "", "k"}

Envs == [TIINGO_API_KEY : KeyValues, FINNHUB_API_KEY : KeyValues]

NoResponse == [status |-> "none", rows |-> <<>>]

IdleCall ==
    [pc |-> "idle", symbol |-> <<>>, interval |-> None, limit |-> 0,
     chain |-> <<>>, idx |-> 0, result |-> NoneValue, error |-> None,
     supportsLog |-> <<>>, fetchLog |-> <<>>, outLog |-> <<>>,
     upstream |-> NoResponse, cancelled |-> FALSE, worker |-> "none"]

\* the symbols the orchestration specifications call fetch with
SampleSymbols ==
    { <<"B","T","C","U","S","D","T">>,          \* crypto
      <<"E","T","H","B","T","C">>,              \* crypto, six letters
      <<"A","A","P","L">>,                      \* stock
      <<"^","G","S","P","C">>,                  \* index
      <<"W","M",".","T","O">>,                  \* international stock
      <<"E","U","R","U","S","D">>,              \* forex
      <<"b","t","c","/","u","s","d","t">>,      \* no class, a binance pair
      <<"Z","Z","Z","9","9","9","!","!">> }     \* no class

\* an interval all providers honour, three only some do, one none does
Intervals == {"1d", "1h", "30m", "4h", "2d"}

Limits == 0..MaxLimit

\* the symbols of the classification specification
\* two letters that spell the quote currency BNB, a lower-case letter, a
\* digit, the two punctuation marks of the patterns and a newline
Alphabet == {"B", "N", "b", "9", ".", "^", "\n"}

AllSymbols == UNION {[1..k -> Alphabet] : k \in 0..MaxSymLen}

CallInit(ids) ==
    /\ env \in Envs
    /\ instances = [p \in Providers |-> 0]
    /\ constructed = [p \in Providers |-> 0]
    /\ calls = [c \in ids |-> IdleCall]

(***************************************************************************)
(* registry.fetch, step by step.                                           *)
(***************************************************************************)
\* a caller starts  fetch(symbol, interval, limit)
Call(c, symbols, intervals, limits) ==
    /\ calls[c].pc = "idle"
    /\ \E sy \in symbols, iv \in intervals, lim \in limits :
          calls' = [calls EXCEPT ![c] =
                      [IdleCall EXCEPT !.pc = "called", !.symbol = sy,
                                       !.interval = iv, !.limit = lim]]
    /\ UNCHANGED <<env, instances, constructed>>

\* for provider in pick(symbol):
Pick(c) ==
    /\ calls[c].pc = "called"
    /\ LET got == pick(calls[c].symbol,
                       [instances |-> instances, constructed |-> constructed])
       IN  /\ instances' = got.reg.instances
           /\ constructed' = got.reg.constructed
           /\ calls' = [calls EXCEPT ![c].pc = "loop", ![c].chain = got.chain,
                                     ![c].idx = 1]
    /\ UNCHANGED env

\* faulty variant of AfterFetch: a truthy result is kept but the loop goes on
AfterFetchKeepsGoing(call, out) ==
    LET logged == [call EXCEPT !.outLog = Append(@, out)]
    IN  IF out.kind = "raise"
        THEN [logged EXCEPT !.pc = "raised", !.error = out.error]
        ELSE IF Truthy(out.value)
        THEN [logged EXCEPT !.pc = "loop", !.idx = @ + 1, !.result = out.value]
        ELSE [logged EXCEPT !.pc = "loop", !.idx = @ + 1, !.upstream = NoResponse]

\* what the loop does with the outcome of  await provider.fetch(...):
\* an exception leaves fetch, a truthy result is returned, else the next provider
AfterFetch(call, out) ==
    LET logged == [call EXCEPT !.outLog = Append(@, out)]
    IN  IF out.kind = "raise"
        THEN [logged EXCEPT !.pc = "raised", !.error = out.error]
        ELSE IF Truthy(out.value)
        THEN [logged EXCEPT !.pc = "returned", !.result = out.value]
        ELSE [logged EXCEPT !.pc = "loop", !.idx = @ + 1, !.upstream = NoResponse]

\* faulty variant of AfterLoop: exhaustion raises
AfterLoopRaises(call) == [call EXCEPT !.pc = "raised", !.error = "LookupError"]

\* the loop is over:  return None
AfterLoop(call) == [call EXCEPT !.pc = "returned", !.result = NoneValue]

\* if not provider.supports(symbol): continue
Skip(c) ==
    LET call == calls[c] IN
    /\ call.pc = "loop"
    /\ call.idx <= Len(call.chain)
    /\ ~supports(call.chain[call.idx].name, call.symbol)
    /\ calls' = [calls EXCEPT ![c].idx = @ + 1,
                              ![c].supportsLog = Append(@, call.chain[call.idx].name)]
    /\ UNCHANGED <<env, instances, constructed>>

\* provider.fetch(symbol, interval, limit) is entered and runs to its network
\* call, or returns or raises before it
Invoke(c) ==
    LET call == calls[c] IN
    /\ call.pc = "loop"
    /\ call.idx <= Len(call.chain)
    /\ supports(call.chain[call.idx].name, call.symbol)
    /\ LET p      == call.chain[call.idx].name
           pre    == PreAwait(p, call.interval, env)
           logged == [call EXCEPT !.supportsLog = Append(@, p),
                                  !.fetchLog = Append(@, p)]
       IN  calls' = [calls EXCEPT ![c] =
                        IF pre.kind = "await" THEN [logged EXCEPT !.pc = "awaiting"]
                        ELSE AfterFetch(logged, pre)]
    /\ UNCHANGED <<env, instances, constructed>>

\* the network call of the provider in flight completes with a response of at
\* most n rows; the provider finishes and the loop goes on
Resume(c, n) ==
    LET call == calls[c] IN
    /\ call.pc = "awaiting"
    /\ \E resp \in Responses(call.chain[call.idx].name, n) :
          calls' = [calls EXCEPT ![c] =
                      AfterFetch([call EXCEPT !.upstream = resp],
                                 PostAwait(call.chain[call.idx].name, resp, call.limit))]
    /\ UNCHANGED <<env, instances, constructed>>

\* the chain is exhausted
Exhausted(c) ==
    /\ calls[c].pc = "loop"
    /\ calls[c].idx > Len(calls[c].chain)
    /\ calls' = [calls EXCEPT ![c] = AfterLoop(calls[c])]
    /\ UNCHANGED <<env, instances, constructed>>

\* the caller has its answer; the coroutine is gone and the id is free again
Done(c) ==
    /\ (calls[c].pc = "returned" \/ calls[c].pc = "raised")
    /\ calls' = [calls EXCEPT ![c] = IdleCall]
    /\ UNCHANGED <<env, instances, constructed>>

\* the providers whose network call is a blocking function run by
\* asyncio.to_thread; binance awaits aiohttp on the event loop itself
Threaded == {"yfinance", "tiingo", "finnhub"}

\* faulty variant of AfterCancel: the provider catches the CancelledError
\* thrown into its await and returns None, so the loop goes on
AfterCancelSwallowed(call) ==
    AfterFetch([call EXCEPT !.cancelled = TRUE], Return(NoneValue))

\* CancelledError is thrown into the await of the provider in flight; neither
\* the provider nor fetch catches it (a BaseException), so it leaves both.
\* A worker thread that to_thread started cannot be interrupted: it is left
\* running and nobody awaits its result.
AfterCancel(call) ==
    [call EXCEPT !.pc = "cancelled", !.error = "CancelledError",
                 !.cancelled = TRUE,
                 !.outLog = Append(@, Raise("CancelledError")),
                 !.worker = IF call.chain[call.idx].name \in Threaded
                            THEN "running" ELSE "none"]

\* the caller cancels the task of a fetch suspended in a provider
Cancel(c) ==
    /\ calls[c].pc = "awaiting"
    /\ calls' = [calls EXCEPT ![c] = AfterCancel(calls[c])]
    /\ UNCHANGED <<env, instances, constructed>>

\* the abandoned worker thread finishes its blocking request; its result,
\* whatever it is, is dropped
WorkerEnds(c, n) ==
    LET call == calls[c] IN
    /\ call.worker = "running"
    /\ \E resp \in Responses(call.chain[call.idx].name, n) :
          calls' = [calls EXCEPT ![c].worker = "done"]
    /\ UNCHANGED <<env, instances, constructed>>

(***************************************************************************)
(* Spec: one fetch call, every argument and every upstream response.       *)
(***************************************************************************)
\* the call ids of Spec and SpecPick, and of SpecConc
OneCall == {"a"}
TwoCalls == {"a", "b"}

Init == CallInit(OneCall)

Next ==
    \/ Call("a", SampleSymbols, Intervals, Limits)
    \/ Pick("a")
    \/ Skip("a")
    \/ Invoke("a")
    \/ Resume("a", MaxRows)
    \/ Exhausted("a")

Spec == Init /\ [][Next]_vars

(***************************************************************************)
(* SpecPick: the chain lookup of one call, for every symbol of at most     *)
(* MaxSymLen characters over Alphabet.                                     *)
(***************************************************************************)
\* the lookup does not read interval and limit
PickIntervals == {"1d"}
PickLimits == {1}

InitPick ==
    /\ CallInit(OneCall)
    /\ env = [TIINGO_API_KEY |-> None, FINNHUB_API_KEY |-> None]

NextPick ==
    \/ Call("a", AllSymbols, PickIntervals, PickLimits)
    \/ Pick("a")

SpecPick == InitPick /\ [][NextPick]_vars

(***************************************************************************)
(* SpecConc: two fetch coroutines interleaved on one event loop, each id   *)
(* reused by later calls.  A coroutine runs alone between two suspension   *)
(* points; the only suspension point of a call is the network call of the  *)
(* provider in flight.  Responses carry at most one row.                   *)
(***************************************************************************)
ConcSymbols ==
    { <<"B","T","C","U","S","D","T">>, <<"A","A","P","L">>,
      <<"E","U","R","U","S","D">>, <<"Z","Z","Z","9","9","9","!","!">> }

ConcIntervals == {"1d", "4h"}

InitConc ==
    /\ CallInit(TwoCalls)
    /\ env.TIINGO_API_KEY = env.FINNHUB_API_KEY
    /\ env.TIINGO_API_KEY # ""

NextConc ==
    \E c \in TwoCalls :
        \/ Call(c, ConcSymbols, ConcIntervals, PickLimits)
        \/ Pick(c)
        \/ Skip(c)
        \/ Invoke(c)
        \/ Resume(c, 1)
        \/ Exhausted(c)
        \/ Done(c)

SpecConc == InitConc /\ [][NextConc]_vars

(***************************************************************************)
(* SpecLoose: one fetch call with no key set, for every symbol of at most  *)
(* MaxSymLen characters over LooseAlphabet; most of them have no class.    *)
(***************************************************************************)
\* two letters that spell the quote currency BNB, a lower-case letter, a
\* separator binance removes, and a newline: whitespace that strip() removes
\* and that "$" lets pass at the end
LooseAlphabet == {"B", "N", "b", "/", "\n"}

LooseSymbols == UNION {[1..k -> LooseAlphabet] : k \in 0..MaxSymLen}

NextLoose ==
    \/ Call("a", LooseSymbols, PickIntervals, PickLimits)
    \/ Pick("a")
    \/ Skip("a")
    \/ Invoke("a")
    \/ Resume("a", 1)
    \/ Exhausted("a")

SpecLoose == InitPick /\ [][NextLoose]_vars

(***************************************************************************)
(* SpecCancel: one fetch call as in Spec, which the caller may cancel      *)
(* while it is suspended in a provider.                                    *)
(***************************************************************************)
NextCancel ==
    \/ Call("a", SampleSymbols, Intervals, Limits)
    \/ Pick("a")
    \/ Skip("a")
    \/ Invoke("a")
    \/ Resume("a", MaxRows)
    \/ Exhausted("a")
    \/ Cancel("a")
    \/ WorkerEnds("a", MaxRows)

SpecCancel == Init /\ [][NextCancel]_vars

(***************************************************************************)
(* Properties of one fetch call (Spec).                                    *)
(***************************************************************************)
ChainNames(chain) == [i \in 1..Len(chain) |-> chain[i].name]

\* the providers of a call's chain that support its symbol, in chain order
Supporting(call) ==
    SelectSeq(ChainNames(call.chain), LAMBDA p : supports(p, call.symbol))

Absent(out) == out.kind = "return" /\ ~Truthy(out.value)

Last(seq) == seq[Len(seq)]

AAPL == <<"A","A","P","L">>

\* the intervals provider p honours
Honoured(p) ==
    CASE p = "binance"  -> _VALID_INTERVALS
      [] p = "yfinance" -> _INTERVAL_MAP
      [] p = "tiingo"   -> _RESAMPLE
      [] p = "finnhub"  -> _RESOLUTION_MAP

\* C1 - First success wins: the providers whose fetch was invoked are, in
\* chain order and once each, the leading supporting providers of the chain;
\* every fetch before the last one yielded absence; a non-empty result of a
\* provider ends the call at once, and the call returns exactly that result,
\* so no provider after the winner is invoked.
FirstSuccessWins ==
    \A c \in DOMAIN calls :
        LET call == calls[c]
            sup  == Supporting(call)
            n    == Len(call.fetchLog)
            m    == Len(call.outLog)
        IN  /\ n <= Len(sup)
            /\ call.fetchLog = SubSeq(sup, 1, n)
            /\ m = IF call.pc = "awaiting" THEN n - 1 ELSE n
            /\ \A i \in 1..(m - 1) : Absent(call.outLog[i])
            /\ (m >= 1 /\ ~Absent(Last(call.outLog)) /\ Last(call.outLog).kind = "return")
                  => /\ call.pc = "returned"
                     /\ call.result = Last(call.outLog).value
            /\ (call.pc = "returned" /\ Truthy(call.result))
                  => /\ m >= 1
                     /\ Last(call.outLog) = Return(call.result)

\* C1 witness: the second supporting provider won after the first yielded
\* absence, and a third supporting provider was never invoked
FirstSuccessWinsWitness ==
    \E c \in DOMAIN calls :
        /\ calls[c].pc = "returned"
        /\ Truthy(calls[c].result)
        /\ Len(calls[c].fetchLog) = 2
        /\ Len(Supporting(calls[c])) = 3

\* C2 - Exhaustion is absence: a finished call all of whose invoked providers
\* yielded absence (the others were skipped) returned None and raised nothing.
ExhaustionIsAbsence ==
    \A c \in DOMAIN calls :
        LET call == calls[c]
        IN  (/\ (call.pc = "returned" \/ call.pc = "raised")
             /\ \A i \in 1..Len(call.outLog) : Absent(call.outLog[i]))
                => /\ call.pc = "returned"
                   /\ call.result = NoneValue
                   /\ call.error = None

\* C2 witness: a call returned None after one provider was skipped and two
\* yielded absence
ExhaustionIsAbsenceWitness ==
    \E c \in DOMAIN calls :
        /\ calls[c].pc = "returned"
        /\ calls[c].result = NoneValue
        /\ Len(calls[c].fetchLog) = 2
        /\ Len(calls[c].supportsLog) = 3

\* C3 - Result size bound: a non-absent result has between 1 and limit
\* candles.
ResultSizeBound ==
    \A c \in DOMAIN calls :
        (calls[c].pc = "returned" /\ ~calls[c].result.isNone)
            => /\ Len(calls[c].result.items) >= 1
               /\ Len(calls[c].result.items) <= calls[c].limit

KeyOf(p) == IF p = "tiingo" THEN env.TIINGO_API_KEY ELSE env.FINNHUB_API_KEY

KeyError(p) ==
    IF p = "tiingo" THEN "RuntimeError: TIINGO_API_KEY" ELSE "RuntimeError: FINNHUB_API_KEY"

\* C4 - Missing credential aborts the chain: when the last provider invoked
\* needs a key, honours the interval and finds its key unset, the call has
\* raised that provider's error; it is the last provider invoked.
MissingCredentialAborts ==
    \A c \in DOMAIN calls :
        LET call == calls[c]
            n    == Len(call.fetchLog)
        IN  \A i \in 1..n :
                (/\ (call.fetchLog[i] = "tiingo" \/ call.fetchLog[i] = "finnhub")
                 /\ call.interval \in Honoured(call.fetchLog[i])
                 /\ KeyOf(call.fetchLog[i]) = None)
                    => /\ i = n
                       /\ call.pc = "raised"
                       /\ call.error = KeyError(call.fetchLog[i])
                       /\ call.result = NoneValue

\* C4 witness: tiingo raised for its missing key while finnhub, later in the
\* chain, supports the symbol, honours the interval and has its key
MissingCredentialAbortsWitness ==
    \E c \in DOMAIN calls :
        /\ calls[c].pc = "raised"
        /\ calls[c].fetchLog = <<"yfinance", "tiingo">>
        /\ Supporting(calls[c]) = <<"yfinance", "tiingo", "finnhub">>
        /\ calls[c].interval \in Honoured("finnhub")
        /\ env.TIINGO_API_KEY = None
        /\ env.FINNHUB_API_KEY = "k"

\* C5 - Only configuration errors cross the boundary: a call that raised,
\* raised for a missing credential.
OnlyConfigErrorsCross ==
    \A c \in DOMAIN calls :
        calls[c].pc = "raised" => (\/ calls[c].error = KeyError("tiingo")
                                      \/ calls[c].error = KeyError("finnhub"))

\* C6 - Invalid rows are dropped, not fatal: a batch of rows never makes the
\* call raise, and every candle returned has high >= low and time > 0.
InvalidRowsDropped ==
    \A c \in DOMAIN calls :
        LET call == calls[c]
        IN  /\ call.upstream.status = "ok" => call.pc # "raised"
            /\ \A i \in 1..Len(call.result.items) :
                  /\ call.result.items[i].high >= call.result.items[i].low
                  /\ call.result.items[i].time > 0

\* C8 - Unsupported interval is absence: every fetch of a provider that does
\* not honour the call's interval returned None, whatever the keys; and a
\* finished fetch("AAPL", "4h", limit) walked yfinance, tiingo and finnhub
\* and returned None.
UnsupportedIntervalIsAbsence ==
    \A c \in DOMAIN calls :
        LET call == calls[c]
        IN  /\ \A i \in 1..Len(call.fetchLog) :
                  call.interval \notin Honoured(call.fetchLog[i])
                      => /\ i <= Len(call.outLog)
                         /\ call.outLog[i] = Return(NoneValue)
            /\ (/\ call.symbol = AAPL
                /\ call.interval = "4h"
                /\ (call.pc = "returned" \/ call.pc = "raised"))
                  => /\ call.pc = "returned"
                     /\ call.result = NoneValue
                     /\ call.fetchLog = <<"yfinance", "tiingo", "finnhub">>

\* C8 witness: fetch("AAPL", "4h", limit) returned None with both keys unset
UnsupportedIntervalIsAbsenceWitness ==
    \E c \in DOMAIN calls :
        /\ calls[c].symbol = AAPL
        /\ calls[c].interval = "4h"
        /\ calls[c].pc = "returned"
        /\ calls[c].fetchLog = <<"yfinance", "tiingo", "finnhub">>
        /\ env.TIINGO_API_KEY = None
        /\ env.FINNHUB_API_KEY = None

\* C9 - Oldest-first ordering: a returned sequence is strictly increasing in
\* candle time.
OldestFirst ==
    \A c \in DOMAIN calls :
        calls[c].pc = "returned"
            => \A i, j \in 1..Len(calls[c].result.items) :
                  i < j => calls[c].result.items[i].time < calls[c].result.items[j].time

(***************************************************************************)
(* Properties of the chain lookup (SpecPick).                              *)
(***************************************************************************)
\* the classification rules in priority order
ClassRules == <<"Crypto", "Stock", "InternationalStock", "Forex">>

RuleMatches(class, up) ==
    CASE class = "Crypto"             -> _CRYPTO_RE(up)
      [] class = "Stock"              -> _STOCK_RE(up)
      [] class = "InternationalStock" -> _INTL_STOCK_RE(up)
      [] class = "Forex"              -> _FOREX_RE(up)

\* the class of the first rule that matches the upper-cased symbol
AssetClass(symbol) ==
    LET hits == {i \in 1..Len(ClassRules) : RuleMatches(ClassRules[i], upper(symbol))}
    IN  IF hits = {} THEN "Unknown"
        ELSE ClassRules[CHOOSE i \in hits : \A j \in hits : i <= j]

RoutingTable(class) ==
    CASE class = "Crypto"             -> <<"binance", "yfinance">>
      [] class = "Stock"              -> <<"yfinance", "tiingo", "finnhub">>
      [] class = "InternationalStock" -> <<"yfinance", "finnhub">>
      [] class = "Forex"              -> <<"yfinance", "finnhub">>
      [] class = "Unknown"            -> <<"binance", "yfinance", "tiingo", "finnhub">>

\* C7 - Routing by first-match classification: the chain pick returned is the
\* routing table's chain for the class of the first matching rule, and a
\* symbol that matches the crypto pattern together with the forex or the
\* stock pattern got the crypto chain.
RoutingByClass ==
    \A c \in DOMAIN calls :
        LET call == calls[c]
            up   == upper(call.symbol)
        IN  (call.pc # "idle" /\ call.pc # "called")
                => /\ ChainNames(call.chain) = RoutingTable(AssetClass(call.symbol))
                   /\ (_CRYPTO_RE(up) /\ (_FOREX_RE(up) \/ _STOCK_RE(up)))
                          => ChainNames(call.chain) = <<"binance", "yfinance">>

\* C7 witness: a five-letter symbol in lower case that matches the crypto and
\* the stock pattern was routed as crypto
RoutingByClassWitness ==
    \E c \in DOMAIN calls :
        /\ calls[c].pc = "loop"
        /\ calls[c].symbol = <<"b", "b", "B", "N", "B">>
        /\ _STOCK_RE(upper(calls[c].symbol))
        /\ ChainNames(calls[c].chain) = <<"binance", "yfinance">>

(***************************************************************************)
(* Properties of the provider singletons (SpecConc).                       *)
(***************************************************************************)
\* no class was constructed twice, every global holds the one instance made,
\* and every chain entry of every call is the instance its global holds
OneInstanceEach ==
    /\ \A p \in Providers :
          /\ constructed[p] <= 1
          /\ instances[p] = constructed[p]
    /\ \A c \in DOMAIN calls :
          \A i \in 1..Len(calls[c].chain) :
              /\ calls[c].chain[i].id # 0
              /\ calls[c].chain[i].id = instances[calls[c].chain[i].name]

\* a constructor runs only in a step that is the chain lookup of a call whose
\* chain holds the provider
ConstructedByLookup ==
    \A p \in Providers :
        constructed'[p] # constructed[p]
            => \E c \in DOMAIN calls :
                  /\ calls[c].pc = "called"
                  /\ calls'[c].pc = "loop"
                  /\ \E i \in 1..Len(calls'[c].chain) : calls'[c].chain[i].name = p

\* a chain lookup ends with the chain in hand, whatever the environment holds
LookupNeverFails ==
    \A c \in DOMAIN calls :
        (calls[c].pc = "called" /\ calls'[c] # calls[c])
            => /\ calls'[c].pc = "loop"
               /\ ChainNames(calls'[c].chain) = RoutingTable(AssetClass(calls[c].symbol))

\* C10 - Lazy singletons: over every interleaving of fetch calls each provider
\* is constructed at most once, only by a chain lookup whose chain holds it,
\* every lookup yields that same instance, and no lookup fails.
LazySingletons ==
    /\ []OneInstanceEach
    /\ [][ConstructedByLookup /\ LookupNeverFails]_vars

\* C10 witness: with no key set, two calls with different chains are both
\* suspended in a provider, tiingo and finnhub exist, binance was never built
LazySingletonsWitness ==
    /\ env.TIINGO_API_KEY = None
    /\ calls["a"].pc = "awaiting"
    /\ calls["b"].pc = "awaiting"
    /\ ChainNames(calls["a"].chain) # ChainNames(calls["b"].chain)
    /\ constructed["tiingo"] = 1
    /\ constructed["yfinance"] = 1
    /\ constructed["binance"] = 0

\* a cancelled call is over: CancelledError left the provider in flight and
\* fetch, and no candle sequence is in hand
CancelledIsOver ==
    \A c \in DOMAIN calls :
        calls[c].cancelled
            => /\ calls[c].pc = "cancelled"
               /\ calls[c].error = "CancelledError"
               /\ calls[c].result = NoneValue
               /\ Len(calls[c].outLog) = Len(calls[c].fetchLog)
               /\ Last(calls[c].outLog) = Raise("CancelledError")

\* after the cancellation no provider has supports or fetch invoked, and the
\* call stays cancelled
NothingAfterCancel ==
    \A c \in DOMAIN calls :
        calls[c].cancelled
            => /\ calls'[c].cancelled
               /\ calls'[c].supportsLog = calls[c].supportsLog
               /\ calls'[c].fetchLog = calls[c].fetchLog
               /\ calls'[c].outLog = calls[c].outLog

\* C11 - Cancellation stops the chain: when a fetch suspended in a provider is
\* cancelled, the provider call in flight ends with CancelledError, no
\* provider later in the chain has supports or fetch invoked afterwards, and
\* the call never returns a candle sequence.
CancellationStopsChain ==
    /\ []CancelledIsOver
    /\ [][NothingAfterCancel]_vars

\* C11 witness: fetch("AAPL", "1d", limit) was cancelled while yfinance was in
\* flight with the keys set, so that tiingo and finnhub would have answered;
\* the abandoned worker thread has finished since
CancellationStopsChainWitness ==
    \E c \in DOMAIN calls :
        /\ calls[c].cancelled
        /\ calls[c].symbol = AAPL
        /\ calls[c].interval = "1d"
        /\ calls[c].fetchLog = <<"yfinance">>
        /\ calls[c].worker = "done"
        /\ env.TIINGO_API_KEY = "k"
        /\ env.FINNHUB_API_KEY = "k"
        /\ Supporting(calls[c]) = <<"yfinance", "tiingo", "finnhub">>

\* the providers other than binance
NotBinance == {"yfinance", "tiingo", "finnhub"}

\* the crypto pattern matches once '/', '-' and surrounding whitespace are gone
BinancePair(symbol) ==
    _CRYPTO_RE(strip(remove(remove(upper(symbol), "/"), "-")))

\* C12 - Unknown-class symbols can only reach binance: provider.fetch is
\* invoked only on providers whose supports(symbol) is true; for a symbol of
\* class Unknown yfinance, tiingo and finnhub do not support it, so only
\* binance has fetch invoked, and only for a binance pair; for any other
\* Unknown symbol the call returns None with no provider fetch at all.
UnknownOnlyReachesBinance ==
    \A c \in DOMAIN calls :
        LET call == calls[c]
        IN  /\ \A i \in 1..Len(call.fetchLog) :
                  supports(call.fetchLog[i], call.symbol)
            /\ (call.pc # "idle" /\ AssetClass(call.symbol) = "Unknown")
                  => /\ \A p \in NotBinance : ~supports(p, call.symbol)
                     /\ \A i \in 1..Len(call.fetchLog) :
                           /\ call.fetchLog[i] = "binance"
                           /\ BinancePair(call.symbol)
                     /\ ~BinancePair(call.symbol)
                           => /\ call.fetchLog = <<>>
                              /\ call.pc # "raised"
                              /\ call.pc = "returned"
                                    => /\ call.result = NoneValue
                                       /\ call.supportsLog = ChainNames(call.chain)

\* C12 witness: fetch("bN/BNB", ...), a symbol of class Unknown, had binance
\* answer nothing and returned None after the other three were skipped
UnknownOnlyReachesBinanceWitness ==
    \E c \in DOMAIN calls :
        /\ calls[c].symbol = <<"b", "N", "/", "B", "N", "B">>
        /\ AssetClass(calls[c].symbol) = "Unknown"
        /\ calls[c].pc = "returned"
        /\ calls[c].result = NoneValue
        /\ calls[c].fetchLog = <<"binance">>
        /\ calls[c].supportsLog = <<"binance", "yfinance", "tiingo", "finnhub">>

====
